---- MODULE Spec2Model ----
(***************************************************************************)
(* Model of the shared investment tracker: the in-memory repository        *)
(* (MemStorage) and the Express route handlers of registerRoutes.          *)
(*                                                                         *)
(* Encoding                                                                *)
(*  - Identifiers (randomUUID) are fresh integers drawn from `uuid`.       *)
(*  - A Map is a sequence in insertion order (Map iteration order); set()  *)
(*    on an existing key keeps the position, delete() removes the entry.   *)
(*  - Money is counted in cents.  A stored amount keeps its JavaScript     *)
(*    representation: a number (what zod yields), a text with two decimals *)
(*    (the seeded literals, "0.00") or the text Number.toString() builds.  *)
(*  - A percentage p is the integer p * PctScale, so that fractional       *)
(*    percentages such as 50.5 are representable.                          *)
(*  - A date text is a day number (>= 1) for a parseable ISO date, or      *)
(*    BadDateText for a text new Date() cannot parse.                      *)
(*  - Fields no handler ever reads (symbol, type, displayName, salePrice,  *)
(*    createdAt) are left out of the records.                              *)
(*  - A handler runs from one `await` to the next in one step; the storage *)
(*    call placed before an await takes effect in the step that makes it.  *)
(***************************************************************************)
EXTENDS Integers, Sequences, FiniteSets, TLC

\* ------------------------------------------------------------------ bounds
NumProcs == 2      \* request handlers that can be in flight together
MaxEvents == 3     \* writing requests, logins and midnights in one run
MaxOverlapping == 2 \* requests in one run whose handlers may interleave
MaxDays == 1       \* midnights that can pass during a run
PctScale == 2      \* a percentage point is PctScale units (0.5 steps)

Procs == 1..NumProcs

\* --------------------------------------------------------------- encodings
Undefined == [undefined |-> TRUE]
NaN == -1
BadDateText == 0

Num(c) == [k |-> "number", v |-> c]
Fixed2(c) == [k |-> "fixed2", v |-> c]

\* Number.prototype.toString: the shortest text of the number
NumberToString(n) == [k |-> "text", v |-> n]

\* parseFloat(x): a number is first turned into its text, a text is read
parseFloat(x) == IF x.k = "number" THEN NumberToString(x.v).v ELSE x.v

Pct(p) == p * PctScale
Hundred == Pct(100)

\* new Date(text).getTime()
getTime(d) == IF d = BadDateText THEN NaN ELSE d

VARIABLES
    users,          \* MemStorage.users
    investments,    \* MemStorage.investments
    transactions,   \* MemStorage.transactions
    sales,          \* MemStorage.sales
    uuid,           \* the next identifier randomUUID() hands out
    today,          \* the day new Date() reports
    pc,             \* where each request handler stands
    req,            \* the request each handler serves
    loc,            \* the handler's local constants, and what it has written
    resp,           \* the response each handler sent
    events,         \* writing requests, logins and midnights so far
    session         \* the role the client holds from its last successful login

vars == <<users, investments, transactions, sales, uuid, today,
          pc, req, loc, resp, events, session>>

store == <<investments, transactions, sales>>

\* ------------------------------------------------------------ JavaScript
\* `!x` for the values a password or an actor field can take
Falsy(x) == x \in {"<undefined>", "<null>", ""}

\* a || b
OrElse(a, b) == IF Falsy(a) THEN b ELSE a

\* { ...base, ...over }: the fields of `over` win
Spread(base, over) == over @@ base

\* The comparator (a, b) => new Date(b.date).getTime() - new Date(a.date).getTime()
\* as Array.prototype.sort reads it: a NaN result counts as +0.
CompareDesc(ta, tb) == IF ta = NaN \/ tb = NaN THEN 0 ELSE tb - ta

\* Array.prototype.sort as V8 runs it on an array shorter than 64 elements
\* (TimSort with one run: CountAndMakeRun, then BinaryInsertionSort).
\* `t` is the sequence of sort keys, `a` the array of indices into it.
Reverse(s) == [i \in 1..Len(s) |-> s[Len(s) + 1 - i]]

RECURSIVE RunEnd(_, _, _, _)
RunEnd(t, a, isDescending, r) ==
    IF r = Len(a) THEN r
    ELSE LET order == CompareDesc(t[a[r + 1]], t[a[r]])
         IN  IF (isDescending /\ order >= 0) \/ (~isDescending /\ order < 0)
             THEN r
             ELSE RunEnd(t, a, isDescending, r + 1)

\* the length of the first run, the run made ascending
CountAndMakeRun(t, a) ==
    IF Len(a) < 2 THEN [len |-> Len(a), arr |-> a]
    ELSE LET isDescending == CompareDesc(t[a[2]], t[a[1]]) < 0
             r == RunEnd(t, a, isDescending, 2)
         IN  [len |-> r,
              arr |-> IF isDescending
                      THEN Reverse(SubSeq(a, 1, r)) \o SubSeq(a, r + 1, Len(a))
                      ELSE a]

\* left and right are 0-based, as in the source of the sort
RECURSIVE BinarySearch(_, _, _, _, _)
BinarySearch(t, a, pivot, left, right) ==
    IF left >= right THEN left
    ELSE LET mid == left + ((right - left) \div 2)
         IN  IF CompareDesc(t[pivot], t[a[mid + 1]]) < 0
             THEN BinarySearch(t, a, pivot, left, mid)
             ELSE BinarySearch(t, a, pivot, mid + 1, right)

RECURSIVE BinaryInsertionSort(_, _, _)
BinaryInsertionSort(t, a, start) ==
    IF start >= Len(a) THEN a
    ELSE LET pivot == a[start + 1]
             left == BinarySearch(t, a, pivot, 0, start)
             moved == SubSeq(a, 1, left) \o <<pivot>> \o SubSeq(a, left + 1, start)
                      \o SubSeq(a, start + 2, Len(a))
         IN  BinaryInsertionSort(t, moved, start + 1)

\* the permutation Array.prototype.sort produces for the keys t
ArraySort(t) ==
    LET run == CountAndMakeRun(t, [i \in 1..Len(t) |-> i])
    IN  BinaryInsertionSort(t, run.arr, run.len)

\* -------------------------------------------------------------- MemStorage
\* Array.prototype.find over the indices `hits` of the matching elements
Find(s, hits) ==
    IF hits = {} THEN Undefined
    ELSE s[CHOOSE i \in hits : \A j \in hits : i <= j]

MapHas(m, id) == \E i \in 1..Len(m) : m[i].id = id
MapGet(m, id) == Find(m, {i \in 1..Len(m) : m[i].id = id})
MapDelete(m, id) == LET Keep(r) == r.id # id IN SelectSeq(m, Keep)
MapSet(m, id, r) ==
    IF MapHas(m, id) THEN [i \in 1..Len(m) |-> IF m[i].id = id THEN r ELSE m[i]]
    ELSE Append(m, r)

\* Array.from(map.values()): the values in insertion order, in a new array
ArrayFrom(m) == m

getUserByUsername(us, username) ==
    Find(us, {i \in 1..Len(us) : us[i].username = username})

\* variant: the user is stored without its password
createUser_NoPassword(us, insertUser, id) ==
    MapSet(us, id, Spread(insertUser, [id |-> id, password |-> "<null>"]))

createUser(us, insertUser, id) == MapSet(us, id, Spread(insertUser, [id |-> id]))

getAllUsers(us) == ArrayFrom(us)

\* variant: an admin needs some password, not the stored one
authenticateUser_AnyPassword(us, username, password) ==
    LET user == getUserByUsername(us, username)
    IN  IF user = Undefined THEN Undefined
        ELSE IF user.role = "admin" /\ Falsy(password) THEN Undefined ELSE user

authenticateUser(us, username, password) ==
    LET user == getUserByUsername(us, username)
    IN  IF user = Undefined THEN Undefined
        ELSE IF user.role = "admin" /\ (Falsy(password) \/ user.password # password)
             THEN Undefined
             ELSE user

\* variant: an absent id finds the first investment
getInvestment_OrFirst(invs, id) ==
    IF MapHas(invs, id) \/ invs = <<>> THEN MapGet(invs, id) ELSE invs[1]

getInvestment(invs, id) == MapGet(invs, id)
getAllInvestments(invs) == ArrayFrom(invs)

newInvestment(investment, id) == Spread(investment, [id |-> id])
createInvestment(invs, investment, id) == MapSet(invs, id, newInvestment(investment, id))

\* variant: a field of the existing record wins over the partial's
updatedInvestment_ExistingWins(invs, id, investment) ==
    LET existing == MapGet(invs, id)
    IN  IF existing = Undefined THEN Undefined ELSE Spread(investment, existing)

\* the record updateInvestment returns (and stores), Undefined when absent
updatedInvestment(invs, id, investment) ==
    LET existing == MapGet(invs, id)
    IN  IF existing = Undefined THEN Undefined ELSE Spread(existing, investment)

\* variant: an absent id is stored instead of skipped
updateInvestment_Upsert(invs, id, investment) ==
    MapSet(invs, id, Spread(IF MapHas(invs, id) THEN MapGet(invs, id) ELSE [id |-> id],
                            investment))

updateInvestment(invs, id, investment) ==
    LET updated == updatedInvestment(invs, id, investment)
    IN  IF updated = Undefined THEN invs ELSE MapSet(invs, id, updated)

deleteInvestment(invs, id) == MapDelete(invs, id)

\* variant: the deletion always reports success
deleteReturns_Always(invs, id) == TRUE

\* what Map.delete returns: whether the key was there
deleteReturns(invs, id) == MapHas(invs, id)

newTransaction(transaction, id) == Spread(transaction, [id |-> id])
\* variant: the log is keyed by the investment, a later entry replaces the earlier
createTransaction_KeyedByInvestment(txs, transaction, id) ==
    MapSet(txs, transaction.investmentId,
           newTransaction(transaction, transaction.investmentId))

createTransaction(txs, transaction, id) == MapSet(txs, id, newTransaction(transaction, id))

\* variant: the sort reorders the collection itself
valuesAfterSort_InPlace(m, sorted) == sorted

\* what the Map holds after Array.from(map.values()).sort(...): the copy was
\* sorted, the Map keeps its own order
valuesAfterSort(m, sorted) == m

getAllTransactions(txs) ==
    LET order == ArraySort([i \in 1..Len(txs) |-> getTime(txs[i].date)])
    IN  [i \in 1..Len(txs) |-> txs[order[i]]]

newSale(sale, id) == Spread(sale, [id |-> id])
createSale(ss, sale, id) == MapSet(ss, id, newSale(sale, id))

getAllSales(ss) ==
    LET order == ArraySort([i \in 1..Len(ss) |-> getTime(ss[i].saleDate)])
    IN  [i \in 1..Len(ss) |-> ss[order[i]]]

\* --------------------------------------------------------------- bootstrap
defaultUsers ==
    << [username |-> "alle", role |-> "admin", password |-> "admin123"],
       [username |-> "ali", role |-> "viewer", password |-> "<null>"] >>

sampleInvestments ==
    << [name |-> "Vanguard FTSE All-World", initialValue |-> Fixed2(800000),
        currentValue |-> Fixed2(920000), allePercentage |-> Pct(75),
        aliPercentage |-> Pct(25), purchaseDate |-> 1, createdBy |-> "alle"],
       [name |-> "Apple Inc.", initialValue |-> Fixed2(500000),
        currentValue |-> Fixed2(580000), allePercentage |-> Pct(80),
        aliPercentage |-> Pct(20), purchaseDate |-> 2, createdBy |-> "alle"],
       [name |-> "iShares Core MSCI World", initialValue |-> Fixed2(700000),
        currentValue |-> Fixed2(758934), allePercentage |-> Pct(70),
        aliPercentage |-> Pct(30), purchaseDate |-> 3, createdBy |-> "alle"] >>

\* variant: the seeded purchase logs the present value
PurchaseOfSample_CurrentValue(inv, investmentId) ==
    [action |-> "Acquisto", investmentId |-> investmentId, investmentName |-> inv.name,
     amount |-> inv.currentValue, date |-> inv.purchaseDate, userId |-> "alle"]

PurchaseOfSample(inv, investmentId) ==
    [action |-> "Acquisto", investmentId |-> investmentId, investmentName |-> inv.name,
     amount |-> inv.initialValue, date |-> inv.purchaseDate, userId |-> "alle"]

\* initializeDefaultData: ids are handed out in call order
RECURSIVE SeedUsers(_, _)
SeedUsers(n, firstId) ==
    IF n = 0 THEN <<>>
    ELSE createUser(SeedUsers(n - 1, firstId), defaultUsers[n], firstId + n - 1)

RECURSIVE SeedInvestments(_, _)
SeedInvestments(n, firstId) ==
    IF n = 0 THEN <<>>
    ELSE createInvestment(SeedInvestments(n - 1, firstId), sampleInvestments[n],
                          firstId + 2 * (n - 1))

RECURSIVE SeedTransactions(_, _)
SeedTransactions(n, firstId) ==
    IF n = 0 THEN <<>>
    ELSE createTransaction(SeedTransactions(n - 1, firstId),
                           PurchaseOfSample(sampleInvestments[n], firstId + 2 * (n - 1)),
                           firstId + 2 * (n - 1) + 1)

FirstInvestmentId == Len(defaultUsers) + 1
FirstFreeId == FirstInvestmentId + 2 * Len(sampleInvestments)

\* the day the server starts: after every seeded purchase date
FirstDay == Len(sampleInvestments) + 1
LastDay == FirstDay + MaxDays

NoLocals ==
    [user |-> Undefined, investment |-> Undefined, updated |-> Undefined,
     deleted |-> FALSE, sale |-> Undefined, list |-> <<>>, wrote |-> FALSE,
     txs |-> <<>>]
NoRequest == [kind |-> "none"]
NoResponse == [status |-> 0]

Init ==
    /\ users = SeedUsers(Len(defaultUsers), 1)
    /\ investments = SeedInvestments(Len(sampleInvestments), FirstInvestmentId)
    /\ transactions = SeedTransactions(Len(sampleInvestments), FirstInvestmentId)
    /\ sales = <<>>
    /\ uuid = FirstFreeId
    /\ today = FirstDay
    /\ pc = [p \in Procs |-> "idle"]
    /\ req = [p \in Procs |-> NoRequest]
    /\ loc = [p \in Procs |-> NoLocals]
    /\ resp = [p \in Procs |-> NoResponse]
    /\ events = 0
    /\ session = "none"

\* ------------------------------------------------------------- validation
InvestmentFields ==
    {"name", "initialValue", "currentValue", "allePercentage", "aliPercentage",
     "purchaseDate", "createdBy"}

\* z.number().min(0).max(100)
PercentageInRange(p) == p >= Pct(0) /\ p <= Pct(100)

\* z.number().positive()
Positive(x) == x.v > 0

InvestmentFieldOk(f, v) ==
    CASE f \in {"allePercentage", "aliPercentage"} -> PercentageInRange(v)
      [] f \in {"initialValue", "currentValue"} -> Positive(v)
      [] OTHER -> TRUE

\* insertInvestmentSchema.safeParse(body).success; wellFormed says that every
\* field present has the type the schema asks for
insertInvestmentSchema(wellFormed, body) ==
    /\ wellFormed
    /\ DOMAIN body = InvestmentFields
    /\ \A f \in DOMAIN body : InvestmentFieldOk(f, body[f])

\* insertInvestmentSchema.partial().safeParse(body).success
insertInvestmentSchemaPartial(wellFormed, body) ==
    /\ wellFormed
    /\ DOMAIN body \subseteq InvestmentFields
    /\ \A f \in DOMAIN body : InvestmentFieldOk(f, body[f])

\* variant: only a sum above 100 is refused
SumIsNot100_OnlyAbove(allePercentage, aliPercentage) ==
    allePercentage + aliPercentage > Hundred

\* allePercentage + aliPercentage !== 100
SumIsNot100(allePercentage, aliPercentage) == allePercentage + aliPercentage # Hundred

\* insertSaleSchema.safeParse(body).success: whole percentages between 0 and
\* 100 and an amount that is not negative
insertSaleSchema(wellFormed, body) ==
    /\ wellFormed
    /\ \A f \in {"allePercentage", "aliPercentage"} :
          PercentageInRange(body[f]) /\ body[f] % PctScale = 0
    /\ body.saleAmount.v >= 0

\* ------------------------------------------------------- synthesized records
PurchaseTransaction(investment) ==
    [action |-> "Acquisto", investmentId |-> investment.id,
     investmentName |-> investment.name, amount |-> investment.initialValue,
     date |-> investment.purchaseDate, userId |-> investment.createdBy]

\* variant: the edit is always signed by the creator
EditTransaction_ByCreator(updated, updatedBy, day) ==
    [action |-> "Modifica", investmentId |-> updated.id,
     investmentName |-> updated.name, amount |-> updated.currentValue,
     date |-> day, userId |-> updated.createdBy]

\* variant: the edit logs the purchase value
EditTransaction_InitialValue(updated, updatedBy, day) ==
    [action |-> "Modifica", investmentId |-> updated.id,
     investmentName |-> updated.name, amount |-> updated.initialValue,
     date |-> day, userId |-> OrElse(updatedBy, updated.createdBy)]

EditTransaction(updated, updatedBy, day) ==
    [action |-> "Modifica", investmentId |-> updated.id,
     investmentName |-> updated.name, amount |-> updated.currentValue,
     date |-> day, userId |-> OrElse(updatedBy, updated.createdBy)]

\* variant: the deletion is always signed by the creator
DeletionTransaction_ByCreator(id, investment, deletedBy, day) ==
    [action |-> "Eliminazione", investmentId |-> id,
     investmentName |-> investment.name, amount |-> Fixed2(0),
     date |-> day, userId |-> investment.createdBy]

DeletionTransaction(id, investment, deletedBy, day) ==
    [action |-> "Eliminazione", investmentId |-> id,
     investmentName |-> investment.name, amount |-> Fixed2(0),
     date |-> day, userId |-> OrElse(deletedBy, investment.createdBy)]

SaleTransaction(investment, data) ==
    [action |-> "Vendita", investmentId |-> data.investmentId,
     investmentName |-> investment.name, amount |-> NumberToString(data.saleAmount.v),
     date |-> data.saleDate, userId |-> data.createdBy]

\* variant: the sale is taken off the purchase value
newCurrentValue_FromInitialValue(investment, data) ==
    NumberToString(parseFloat(investment.initialValue) - data.saleAmount.v)

\* parseFloat(investment.currentValue) - saleAmount, as the text stored back
newCurrentValue(investment, data) ==
    NumberToString(parseFloat(investment.currentValue) - data.saleAmount.v)

\* variant: the sale's split is written to the investment as well
SalePatch_WithSplit(investment, data) ==
    [currentValue |-> newCurrentValue(investment, data),
     allePercentage |-> data.allePercentage, aliPercentage |-> data.aliPercentage]

\* the partial the sale hands to updateInvestment
SalePatch(investment, data) == [currentValue |-> newCurrentValue(investment, data)]

\* ---------------------------------------------------------------- requests
MissingId == 0

Callers == {"alle", "ali", "bob", ""}
Passwords == {"<undefined>", "admin123", "wrong"}
PurchaseDates == {2}
SaleDates == {BadDateText, 2, LastDay}
PercentagePairs ==
    { <<Pct(60), Pct(40)>>, <<Pct(60), Pct(30)>>,
      <<Pct(50) + 1, Pct(50) - 1>>, <<Pct(120), 0 - Pct(20)>> }
SalePercentagePairs == { <<Pct(50), Pct(50)>>, <<Pct(60), Pct(30)>> }
SaleAmounts == {40000, 580000, 600000}
Actors == {"<undefined>", "ali"}

InvestmentBodies ==
    { [name |-> "Test ETF", initialValue |-> Num(100000), currentValue |-> Num(100000),
       allePercentage |-> pp[1], aliPercentage |-> pp[2], purchaseDate |-> d,
       createdBy |-> "alle"] : pp \in PercentagePairs, d \in PurchaseDates }

PartialBodies ==
    { [name |-> "Renamed"], [currentValue |-> Num(200000)], [currentValue |-> Num(30000)],
      [allePercentage |-> Pct(60)], [allePercentage |-> Pct(60), aliPercentage |-> Pct(40)],
      [allePercentage |-> Pct(60), aliPercentage |-> Pct(30)],
      [aliPercentage |-> Pct(120)] }

\* requests address the second sample investment or an id that is not stored
AppleId == FirstInvestmentId + 2
TargetIds == {MissingId, AppleId}

SaleBodies ==
    { [investmentId |-> id, investmentName |-> n, saleAmount |-> Num(a),
       allePercentage |-> pp[1], aliPercentage |-> pp[2], saleDate |-> d,
       createdBy |-> "alle"] :
         id \in TargetIds, n \in {"Apple Inc."}, a \in SaleAmounts,
         pp \in SalePercentagePairs, d \in SaleDates }

\* the sale dates vary for one amount, the amounts for one date
VariedSaleBodies ==
    {b \in SaleBodies : b.saleAmount.v = 40000 \/ b.saleDate = 2}

\* the role the client acts under
CallerRole == session

\* a request takes the first free handler slot
CanStart(p) ==
    /\ pc[p] = "idle"
    /\ \A q \in Procs : q < p => pc[q] # "idle"
    /\ events < MaxEvents

Accept(p, r) ==
    /\ req' = [req EXCEPT ![p] = r @@ [caller |-> CallerRole]]
    /\ events' = events + 1

Goto(p, label) ==
    /\ pc' = [pc EXCEPT ![p] = label]
    /\ resp' = [resp EXCEPT ![p] = NoResponse]

Reply(p, status, body) ==
    /\ pc' = [pc EXCEPT ![p] = "done"]
    /\ resp' = [resp EXCEPT ![p] = [status |-> status, body |-> body]]

\* what the handler holds after the step; `wrote` and `txs` record what the
\* request has written to the repository so far
Locals(p, l) ==
    loc' = [loc EXCEPT ![p] =
              [l EXCEPT !.wrote = l.wrote \/ store' # store,
                        !.txs = l.txs \o SubSeq(transactions', Len(transactions) + 1,
                                                Len(transactions'))]]

\* POST /api/auth/login, up to `await storage.authenticateUser`
Login(p, username, password) ==
    /\ CanStart(p)
    /\ Accept(p, [kind |-> "POST /api/auth/login", username |-> username,
                  password |-> password])
    /\ UNCHANGED <<users, investments, transactions, sales, uuid, today, session>>
    /\ IF Falsy(username)
       THEN /\ Reply(p, 400, [message |-> "Username richiesto"])
            /\ Locals(p, NoLocals)
       ELSE /\ Goto(p, "POST /api/auth/login: authenticated")
            /\ Locals(p, [NoLocals EXCEPT
                            !.user = authenticateUser(users, username, password)])

\* ... `if (!user)`, res.json(user); the client keeps the user it is given
LoginRespond(p) ==
    /\ pc[p] = "POST /api/auth/login: authenticated"
    /\ IF loc[p].user = Undefined
       THEN /\ Reply(p, 401, [message |-> "Credenziali non valide"])
            /\ UNCHANGED session
       ELSE /\ Reply(p, 200, loc[p].user)
            /\ session' = loc[p].user.role
    /\ UNCHANGED <<users, investments, transactions, sales, uuid, today, req,
                   events, loc>>

\* midnight passes
Tick ==
    /\ today < LastDay
    /\ events < MaxEvents
    /\ today' = today + 1
    /\ events' = events + 1
    /\ UNCHANGED <<users, investments, transactions, sales, uuid,
                   pc, req, loc, resp, session>>

\* POST /api/investments, up to `await storage.createInvestment`
PostInvestment(p, wellFormed, body) ==
    /\ CanStart(p)
    /\ Accept(p, [kind |-> "POST /api/investments", wellFormed |-> wellFormed,
                  body |-> body])
    /\ UNCHANGED <<users, transactions, sales, today, session>>
    /\ IF ~insertInvestmentSchema(wellFormed, body)
       THEN /\ Reply(p, 400, [message |-> "Dati non validi"])
            /\ UNCHANGED <<investments, uuid>>
            /\ Locals(p, NoLocals)
       ELSE IF SumIsNot100(body.allePercentage, body.aliPercentage)
       THEN /\ Reply(p, 400, [message |-> "Le percentuali devono sommare esattamente a 100%"])
            /\ UNCHANGED <<investments, uuid>>
            /\ Locals(p, NoLocals)
       ELSE /\ investments' = createInvestment(investments, body, uuid)
            /\ uuid' = uuid + 1
            /\ Goto(p, "POST /api/investments: createTransaction")
            /\ Locals(p, [NoLocals EXCEPT !.investment = newInvestment(body, uuid)])

\* ... up to `await storage.createTransaction`
PostInvestmentTransaction(p) ==
    /\ pc[p] = "POST /api/investments: createTransaction"
    /\ transactions' = createTransaction(transactions,
                                         PurchaseTransaction(loc[p].investment), uuid)
    /\ uuid' = uuid + 1
    /\ Goto(p, "POST /api/investments: respond")
    /\ UNCHANGED <<users, investments, sales, today, req, events, session>>
    /\ Locals(p, loc[p])

\* ... res.status(201).json(investment)
PostInvestmentRespond(p) ==
    /\ pc[p] = "POST /api/investments: respond"
    /\ Reply(p, 201, loc[p].investment)
    /\ UNCHANGED <<users, investments, transactions, sales, uuid, today, req,
                   events, session, loc>>

\* PUT /api/investments/:id, up to `await storage.updateInvestment`
PutInvestment(p, id, wellFormed, body, updatedBy) ==
    /\ CanStart(p)
    /\ Accept(p, [kind |-> "PUT /api/investments/:id", id |-> id,
                  wellFormed |-> wellFormed, body |-> body, updatedBy |-> updatedBy])
    /\ UNCHANGED <<users, transactions, sales, uuid, today, session>>
    /\ IF ~insertInvestmentSchemaPartial(wellFormed, body)
       THEN /\ Reply(p, 400, [message |-> "Dati non validi"])
            /\ UNCHANGED investments
            /\ Locals(p, NoLocals)
       ELSE /\ investments' = updateInvestment(investments, id, body)
            /\ Goto(p, "PUT /api/investments/:id: updated")
            /\ Locals(p, [NoLocals EXCEPT
                            !.updated = updatedInvestment(investments, id, body)])

\* ... `if (!updated)`, up to `await storage.createTransaction`
PutInvestmentTransaction(p) ==
    /\ pc[p] = "PUT /api/investments/:id: updated"
    /\ UNCHANGED <<users, investments, sales, today, req, events, session>>
    /\ IF loc[p].updated = Undefined
       THEN /\ Reply(p, 404, [message |-> "Investimento non trovato"])
            /\ UNCHANGED <<transactions, uuid>>
       ELSE /\ transactions' = createTransaction(transactions,
                   EditTransaction(loc[p].updated, req[p].updatedBy, today), uuid)
            /\ uuid' = uuid + 1
            /\ Goto(p, "PUT /api/investments/:id: respond")
    /\ Locals(p, loc[p])

\* ... res.json(updated)
PutInvestmentRespond(p) ==
    /\ pc[p] = "PUT /api/investments/:id: respond"
    /\ Reply(p, 200, loc[p].updated)
    /\ UNCHANGED <<users, investments, transactions, sales, uuid, today, req,
                   events, session, loc>>

\* DELETE /api/investments/:id, up to `await storage.getInvestment`
DeleteInvestment(p, id, deletedBy) ==
    /\ CanStart(p)
    /\ Accept(p, [kind |-> "DELETE /api/investments/:id", id |-> id,
                  deletedBy |-> deletedBy])
    /\ UNCHANGED <<users, investments, transactions, sales, uuid, today, session>>
    /\ Goto(p, "DELETE /api/investments/:id: found")
    /\ Locals(p, [NoLocals EXCEPT !.investment = getInvestment(investments, id)])

\* ... `if (!investment)`, up to `await storage.deleteInvestment`
DeleteInvestmentDelete(p) ==
    /\ pc[p] = "DELETE /api/investments/:id: found"
    /\ UNCHANGED <<users, transactions, sales, uuid, today, req, events, session>>
    /\ IF loc[p].investment = Undefined
       THEN /\ Reply(p, 404, [message |-> "Investimento non trovato"])
            /\ UNCHANGED investments
            /\ Locals(p, loc[p])
       ELSE /\ investments' = deleteInvestment(investments, req[p].id)
            /\ Goto(p, "DELETE /api/investments/:id: deleted")
            /\ Locals(p, [loc[p] EXCEPT !.deleted = deleteReturns(investments, req[p].id)])

\* ... `if (deleted)`, up to `await storage.createTransaction`
DeleteInvestmentTransaction(p) ==
    /\ pc[p] = "DELETE /api/investments/:id: deleted"
    /\ UNCHANGED <<users, investments, sales, today, req, events, session>>
    /\ IF loc[p].deleted
       THEN /\ transactions' = createTransaction(transactions,
                   DeletionTransaction(req[p].id, loc[p].investment, req[p].deletedBy,
                                       today), uuid)
            /\ uuid' = uuid + 1
            /\ Goto(p, "DELETE /api/investments/:id: respond")
       ELSE /\ Reply(p, 500, [message |-> "Errore nell'eliminazione investimento"])
            /\ UNCHANGED <<transactions, uuid>>
    /\ Locals(p, loc[p])

\* ... res.json({ message })
DeleteInvestmentRespond(p) ==
    /\ pc[p] = "DELETE /api/investments/:id: respond"
    /\ Reply(p, 200, [message |-> "Investimento eliminato con successo"])
    /\ UNCHANGED <<users, investments, transactions, sales, uuid, today, req,
                   events, session, loc>>

\* POST /api/sales, up to `await storage.getInvestment`
PostSale(p, wellFormed, body) ==
    /\ CanStart(p)
    /\ Accept(p, [kind |-> "POST /api/sales", wellFormed |-> wellFormed, body |-> body])
    /\ UNCHANGED <<users, investments, transactions, sales, uuid, today, session>>
    /\ IF ~insertSaleSchema(wellFormed, body)
       THEN /\ Reply(p, 400, [message |-> "Dati non validi"])
            /\ Locals(p, NoLocals)
       ELSE IF SumIsNot100(body.allePercentage, body.aliPercentage)
       THEN /\ Reply(p, 400, [message |-> "Le percentuali devono sommare esattamente a 100%"])
            /\ Locals(p, NoLocals)
       ELSE /\ Goto(p, "POST /api/sales: found")
            /\ Locals(p, [NoLocals EXCEPT
                            !.investment = getInvestment(investments, body.investmentId)])

\* ... `if (!investment)`, up to `await storage.createSale`
PostSaleCreate(p) ==
    /\ pc[p] = "POST /api/sales: found"
    /\ UNCHANGED <<users, investments, transactions, today, req, events, session>>
    /\ IF loc[p].investment = Undefined
       THEN /\ Reply(p, 404, [message |-> "Investimento non trovato"])
            /\ UNCHANGED <<sales, uuid>>
            /\ Locals(p, loc[p])
       ELSE /\ sales' = createSale(sales, req[p].body, uuid)
            /\ uuid' = uuid + 1
            /\ Goto(p, "POST /api/sales: created")
            /\ Locals(p, [loc[p] EXCEPT !.sale = newSale(req[p].body, uuid)])

\* ... up to `await storage.updateInvestment`
PostSaleUpdate(p) ==
    /\ pc[p] = "POST /api/sales: created"
    /\ investments' = updateInvestment(investments, req[p].body.investmentId,
                                        SalePatch(loc[p].investment, req[p].body))
    /\ Goto(p, "POST /api/sales: updated")
    /\ UNCHANGED <<users, transactions, sales, uuid, today, req, events, session>>
    /\ Locals(p, loc[p])

\* ... up to `await storage.createTransaction`
PostSaleTransaction(p) ==
    /\ pc[p] = "POST /api/sales: updated"
    /\ transactions' = createTransaction(transactions,
           SaleTransaction(loc[p].investment, req[p].body), uuid)
    /\ uuid' = uuid + 1
    /\ Goto(p, "POST /api/sales: respond")
    /\ UNCHANGED <<users, investments, sales, today, req, events, session>>
    /\ Locals(p, loc[p])

\* ... res.status(201).json(sale)
PostSaleRespond(p) ==
    /\ pc[p] = "POST /api/sales: respond"
    /\ Reply(p, 201, loc[p].sale)
    /\ UNCHANGED <<users, investments, transactions, sales, uuid, today, req,
                   events, session, loc>>

\* a read takes the first free handler slot; reads are not counted in `events`
CanRead(p) ==
    /\ pc[p] = "idle"
    /\ \A q \in Procs : q < p => pc[q] # "idle"

AcceptRead(p, r) ==
    /\ req' = [req EXCEPT ![p] = r @@ [caller |-> CallerRole]]
    /\ UNCHANGED events

\* GET /api/users, up to `await storage.getAllUsers`
GetUsers(p) ==
    /\ CanRead(p)
    /\ AcceptRead(p, [kind |-> "GET /api/users"])
    /\ UNCHANGED <<users, investments, transactions, sales, uuid, today, session>>
    /\ Goto(p, "GET /api/users: respond")
    /\ Locals(p, [NoLocals EXCEPT !.list = getAllUsers(users)])

\* GET /api/investments, up to `await storage.getAllInvestments`
GetInvestments(p) ==
    /\ CanRead(p)
    /\ AcceptRead(p, [kind |-> "GET /api/investments"])
    /\ UNCHANGED <<users, investments, transactions, sales, uuid, today, session>>
    /\ Goto(p, "GET /api/investments: respond")
    /\ Locals(p, [NoLocals EXCEPT !.list = getAllInvestments(investments)])

\* GET /api/transactions, up to `await storage.getAllTransactions`
GetTransactions(p) ==
    /\ CanRead(p)
    /\ AcceptRead(p, [kind |-> "GET /api/transactions"])
    /\ transactions' = valuesAfterSort(transactions, getAllTransactions(transactions))
    /\ UNCHANGED <<users, investments, sales, uuid, today, session>>
    /\ Goto(p, "GET /api/transactions: respond")
    /\ Locals(p, [NoLocals EXCEPT !.list = getAllTransactions(transactions)])

\* GET /api/sales, up to `await storage.getAllSales`
GetSales(p) ==
    /\ CanRead(p)
    /\ AcceptRead(p, [kind |-> "GET /api/sales"])
    /\ sales' = valuesAfterSort(sales, getAllSales(sales))
    /\ UNCHANGED <<users, investments, transactions, uuid, today, session>>
    /\ Goto(p, "GET /api/sales: respond")
    /\ Locals(p, [NoLocals EXCEPT !.list = getAllSales(sales)])

\* ... res.json(list)
GetRespond(p) ==
    /\ pc[p] \in {"GET /api/users: respond", "GET /api/investments: respond",
                  "GET /api/transactions: respond", "GET /api/sales: respond"}
    /\ Reply(p, 200, [list |-> loc[p].list])
    /\ UNCHANGED <<users, investments, transactions, sales, uuid, today, req,
                   events, session, loc>>

\* the response is out and the handler's frame is gone
End(p) ==
    /\ pc[p] = "done"
    /\ pc' = [pc EXCEPT ![p] = "idle"]
    /\ req' = [req EXCEPT ![p] = NoRequest]
    /\ loc' = [loc EXCEPT ![p] = NoLocals]
    /\ resp' = [resp EXCEPT ![p] = NoResponse]
    /\ UNCHANGED <<users, investments, transactions, sales, uuid, today, events, session>>

\* ----------------------------------------------------------- specification
\* Among the requests that fail before they reach the repository for the
\* same reason, one stands for all: a body of the wrong type, percentages
\* that do not sum to 100, an id that is not stored.
First(bodies) == CHOOSE b \in bodies : TRUE

PostInvestmentInputs ==
    {<<TRUE, body>> : body \in InvestmentBodies} \cup {<<FALSE, First(InvestmentBodies)>>}

PutInvestmentInputs ==
    {<<id, TRUE, body, "<undefined>">> : id \in TargetIds \ {MissingId},
                                         body \in PartialBodies}
      \cup {<<id, TRUE, First(PartialBodies), by>> : id \in TargetIds \ {MissingId},
                                                     by \in Actors}
      \cup {<<MissingId, TRUE, First(PartialBodies), "<undefined>">>,
            <<AppleId, FALSE, First(PartialBodies), "<undefined>">>}

DeleteInvestmentInputs ==
    {<<id, by>> : id \in TargetIds \ {MissingId}, by \in Actors}
      \cup {<<MissingId, "<undefined>">>}

SumFails(body) == body.allePercentage + body.aliPercentage # Hundred
PostSaleInputs ==
    LET passing == {b \in VariedSaleBodies : ~SumFails(b)}
        failing == {b \in VariedSaleBodies : SumFails(b)}
    IN  {<<TRUE, body>> : body \in {b \in passing : b.investmentId # MissingId}}
          \cup {<<TRUE, First({b \in passing : b.investmentId = MissingId})>>,
                <<TRUE, First(failing)>>, <<FALSE, First(passing)>>}

\* no handler is between two awaits
Quiet == \A p \in Procs : pc[p] = "idle"

\* a request arrives and its handler runs up to its first await
Begin(p) ==
    \/ \E u \in Callers, pw \in Passwords : Login(p, u, pw)
    \/ \E i \in PostInvestmentInputs : PostInvestment(p, i[1], i[2])
    \/ \E i \in PutInvestmentInputs : PutInvestment(p, i[1], i[2], i[3], i[4])
    \/ \E i \in DeleteInvestmentInputs : DeleteInvestment(p, i[1], i[2])
    \/ \E i \in PostSaleInputs : PostSale(p, i[1], i[2])

\* a read arrives and its handler runs up to its await
BeginRead(p) ==
    \/ GetUsers(p)
    \/ GetInvestments(p)
    \/ GetTransactions(p)
    \/ GetSales(p)

\* a handler resumes after an await
Resume(p) ==
    \/ LoginRespond(p)
    \/ GetRespond(p)
    \/ PostInvestmentTransaction(p)
    \/ PostInvestmentRespond(p)
    \/ PutInvestmentTransaction(p)
    \/ PutInvestmentRespond(p)
    \/ DeleteInvestmentDelete(p)
    \/ DeleteInvestmentTransaction(p)
    \/ DeleteInvestmentRespond(p)
    \/ PostSaleCreate(p)
    \/ PostSaleUpdate(p)
    \/ PostSaleTransaction(p)
    \/ PostSaleRespond(p)
    \/ End(p)

\* MemStorage settles every promise at once, so a handler's continuations run
\* as microtasks before the event loop takes the next request: one request
\* at a time.
Next ==
    \/ Quiet /\ Tick
    \/ \E p \in Procs : Quiet /\ Begin(p)
    \/ \E p \in Procs : Quiet /\ BeginRead(p)
    \/ \E p \in Procs : Resume(p)

Spec == Init /\ [][Next]_vars

\* A store whose calls really wait (the IStorage interface allows one) lets
\* the handlers interleave at their awaits.
NextInterleaved ==
    \/ \E p \in Procs : events < MaxOverlapping /\ Begin(p)
    \/ \E p \in Procs : BeginRead(p)
    \/ \E p \in Procs : Resume(p)

SpecInterleaved == Init /\ [][NextInterleaved]_vars

\* ------------------------------------------------------------------ claims
Done(p, kind) == pc[p] = "done" /\ req[p].kind = kind
Success(p) == resp[p].status \in {200, 201}
Stored(m, r) == MapHas(m, r.id) /\ MapGet(m, r.id) = r

WriteKinds ==
    {"POST /api/investments", "PUT /api/investments/:id",
     "DELETE /api/investments/:id", "POST /api/sales"}
ReadKinds ==
    {"GET /api/users", "GET /api/investments", "GET /api/transactions",
     "GET /api/sales", "POST /api/auth/login"}

\* C1: a create-investment request whose body passes the schema is answered
\* 201, with the investment stored, exactly when allePercentage +
\* aliPercentage = 100; otherwise it is answered 400 and has stored nothing.
C1_CreateAcceptedIffSumIs100 ==
    \A p \in Procs :
        (Done(p, "POST /api/investments")
           /\ insertInvestmentSchema(req[p].wellFormed, req[p].body))
        => IF req[p].body.allePercentage + req[p].body.aliPercentage = Hundred
           THEN resp[p].status = 201 /\ Stored(investments, resp[p].body)
           ELSE resp[p].status = 400 /\ ~loc[p].wrote

C1_Witness ==
    \E p \in Procs :
        /\ Done(p, "POST /api/investments")
        /\ req[p].body.allePercentage + req[p].body.aliPercentage = Hundred
        /\ resp[p].status = 201

\* C2: a create-sale request whose saleAmount is greater than the currentValue
\* the handler read for the referenced investment is answered 400 and writes
\* nothing.
C2_OversizedSaleRejected ==
    \A p \in Procs :
        (Done(p, "POST /api/sales")
           /\ loc[p].investment # Undefined
           /\ req[p].body.saleAmount.v > parseFloat(loc[p].investment.currentValue))
        => resp[p].status = 400 /\ ~loc[p].wrote

\* C3: a create-sale request whose saleAmount equals the currentValue of the
\* referenced investment is answered 201 and leaves the investment stored
\* with currentValue 0.
C3_FullSaleLeavesZero ==
    \A p \in Procs :
        (Done(p, "POST /api/sales")
           /\ loc[p].investment # Undefined
           /\ req[p].body.allePercentage + req[p].body.aliPercentage = Hundred
           /\ req[p].body.saleAmount.v = parseFloat(loc[p].investment.currentValue))
        => /\ resp[p].status = 201
           /\ MapHas(investments, req[p].body.investmentId)
           /\ MapGet(investments, req[p].body.investmentId).currentValue
                = NumberToString(0)

C3_Witness ==
    \E p \in Procs :
        /\ Done(p, "POST /api/sales")
        /\ loc[p].investment # Undefined
        /\ req[p].body.saleAmount.v = parseFloat(loc[p].investment.currentValue)
        /\ resp[p].status = 201

\* C4: every stored investment has allePercentage + aliPercentage = 100.
C4_StoredPercentagesSumTo100 ==
    \A i \in 1..Len(investments) :
        investments[i].allePercentage + investments[i].aliPercentage = Hundred

\* C5: a successful create, update, delete or sale request has appended exactly
\* one transaction, with the action, amount and date of the operation.
C5_OneTransactionPerSuccess ==
    \A p \in Procs :
        (pc[p] = "done" /\ Success(p) /\ req[p].kind \in WriteKinds)
        => /\ Len(loc[p].txs) = 1
           /\ Stored(transactions, loc[p].txs[1])
           /\ LET t == loc[p].txs[1]
              IN  CASE req[p].kind = "POST /api/investments" ->
                         /\ t.action = "Acquisto"
                         /\ t.amount = req[p].body.initialValue
                         /\ t.date = req[p].body.purchaseDate
                    [] req[p].kind = "PUT /api/investments/:id" ->
                         /\ t.action = "Modifica"
                         /\ t.amount = MapGet(investments, req[p].id).currentValue
                         /\ t.date = today
                    [] req[p].kind = "DELETE /api/investments/:id" ->
                         /\ t.action = "Eliminazione"
                         /\ parseFloat(t.amount) = 0
                         /\ t.date = today
                    [] req[p].kind = "POST /api/sales" ->
                         /\ t.action = "Vendita"
                         /\ parseFloat(t.amount) = req[p].body.saleAmount.v
                         /\ t.date = req[p].body.saleDate

C5_Witness ==
    \E p \in Procs :
        /\ Done(p, "PUT /api/investments/:id")
        /\ Success(p)
        /\ "currentValue" \in DOMAIN req[p].body

\* C6: a request answered with an error has written nothing to the
\* repository.
C6_FailedRequestWritesNothing ==
    \A p \in Procs :
        (pc[p] = "done" /\ resp[p].status >= 400)
        => ~loc[p].wrote /\ loc[p].txs = <<>>

C6_Witness ==
    \E p \in Procs :
        /\ Done(p, "DELETE /api/investments/:id")
        /\ resp[p].status = 404

\* C7: getAllTransactions returns the stored transactions, each once, latest
\* date first; getAllSales does the same for the sales by saleDate.
SameElements(a, b) ==
    /\ Len(a) = Len(b)
    /\ \A i \in 1..Len(b) : Cardinality({j \in 1..Len(a) : a[j] = b[i]}) = 1

Descending(times) ==
    \A i, j \in 1..Len(times) :
        (i < j /\ times[i] # NaN /\ times[j] # NaN) => times[i] >= times[j]

C7_ListsSortedByDate ==
    /\ SameElements(getAllTransactions(transactions), transactions)
    /\ SameElements(getAllSales(sales), sales)
    /\ LET l == getAllTransactions(transactions)
       IN  Descending([i \in 1..Len(l) |-> getTime(l[i].date)])
    /\ LET l == getAllSales(sales)
       IN  Descending([i \in 1..Len(l) |-> getTime(l[i].saleDate)])

\* C8: no step removes or changes a transaction that exists.
C8_TransactionsAppendOnly ==
    [][/\ Len(transactions') >= Len(transactions)
       /\ \A i \in 1..Len(transactions) : Stored(transactions', transactions[i])]_vars

C8_Witness ==
    \E i \in 1..Len(transactions) :
        /\ transactions[i].action = "Acquisto"
        /\ ~MapHas(investments, transactions[i].investmentId)

\* C9: a mutating request from a caller that is not logged in as admin writes
\* nothing to the repository.
C9_OnlyAdminWrites ==
    \A p \in Procs :
        (pc[p] # "idle" /\ req[p].caller # "admin") => ~loc[p].wrote

\* C10: a login with a username is answered 200, with the user, exactly when
\* the user exists and is a viewer or is an admin whose stored password is the
\* one supplied; otherwise it is answered 401 without a user.
LoginAllowed(username, password) ==
    \E i \in 1..Len(users) :
        /\ users[i].username = username
        /\ \/ users[i].role = "viewer"
           \/ users[i].role = "admin" /\ users[i].password = password

Steps(p, from, to) == pc[p] = from /\ pc'[p] = to

C12_SaleTakesEffectWhole ==
    [][\A p \in Procs :
         Steps(p, "POST /api/sales: created", "POST /api/sales: updated")
         => /\ Stored(sales, loc[p].sale)
            /\ MapHas(investments', req[p].body.investmentId)
            /\ parseFloat(MapGet(investments', req[p].body.investmentId).currentValue)
                 = parseFloat(loc[p].investment.currentValue)
                     - req[p].body.saleAmount.v]_vars

\* C13: no step of a read request (the three list routes and login) and no
\* step in which a handler calls getInvestment changes a stored record or the
\* stored order of a collection; and when the handler resumes after the call,
\* a second call returns what the first returned.
GetInvestmentLabels == {"DELETE /api/investments/:id: found", "POST /api/sales: found"}

ReadAgain(p) ==
    CASE pc[p] = "DELETE /api/investments/:id: found" ->
           loc[p].investment = getInvestment(investments, req[p].id)
      [] pc[p] = "POST /api/sales: found" ->
           loc[p].investment = getInvestment(investments, req[p].body.investmentId)
      [] pc[p] = "GET /api/users: respond" ->
           loc[p].list = getAllUsers(users)
      [] pc[p] = "GET /api/investments: respond" ->
           loc[p].list = getAllInvestments(investments)
      [] pc[p] = "GET /api/transactions: respond" ->
           loc[p].list = getAllTransactions(transactions)
      [] pc[p] = "GET /api/sales: respond" ->
           loc[p].list = getAllSales(sales)
      [] OTHER -> TRUE

C13_ReadsChangeNothing ==
    [][\A p \in Procs :
         /\ (/\ pc'[p] # pc[p]
             /\ \/ req'[p].kind \in ReadKinds
                \/ pc'[p] \in GetInvestmentLabels)
            => UNCHANGED <<users, investments, transactions, sales>>
         /\ ReadAgain(p)]_vars

C13_Witness ==
    \E p \in Procs :
        /\ Done(p, "GET /api/transactions")
        /\ resp[p].status = 200
        /\ Len(transactions) > Len(sampleInvestments)
        /\ resp[p].body.list # transactions
        /\ SameElements(resp[p].body.list, transactions)

\* C14: an update request that passes the partial schema and supplies both
\* percentages with a sum other than 100 is answered 400, and has changed no
\* investment and appended no transaction.
C14_UpdateRevalidatesSum ==
    \A p \in Procs :
        (/\ Done(p, "PUT /api/investments/:id")
         /\ insertInvestmentSchemaPartial(req[p].wellFormed, req[p].body)
         /\ {"allePercentage", "aliPercentage"} \subseteq DOMAIN req[p].body
         /\ req[p].body.allePercentage + req[p].body.aliPercentage # Hundred)
        => resp[p].status = 400 /\ ~loc[p].wrote /\ loc[p].txs = <<>>

\* C15: a create-sale request whose investmentId is not stored is answered
\* with an error, 404 when its body is valid and its percentages sum to 100,
\* and has recorded no sale and no transaction.
C15_SaleOfMissingInvestment ==
    \A p \in Procs :
        (Done(p, "POST /api/sales") /\ ~MapHas(investments, req[p].body.investmentId))
        => /\ resp[p].status >= 400
           /\ (/\ insertSaleSchema(req[p].wellFormed, req[p].body)
               /\ req[p].body.allePercentage + req[p].body.aliPercentage = Hundred)
              => resp[p].status = 404
           /\ loc[p].sale = Undefined
           /\ loc[p].txs = <<>>
           /\ ~loc[p].wrote

C15_Witness ==
    \E p \in Procs :
        /\ Done(p, "POST /api/sales")
        /\ req[p].body.investmentId = MissingId
        /\ insertSaleSchema(req[p].wellFormed, req[p].body)
        /\ req[p].body.allePercentage + req[p].body.aliPercentage = Hundred
        /\ resp[p].status = 404

\* C16: a create-sale request with a valid body whose percentages do not sum
\* to 100 is answered 400 and writes nothing, and every stored sale has
\* allePercentage + aliPercentage = 100.
C16_StoredSalesSumTo100 ==
    /\ \A i \in 1..Len(sales) :
          sales[i].allePercentage + sales[i].aliPercentage = Hundred
    /\ \A p \in Procs :
          (/\ Done(p, "POST /api/sales")
           /\ insertSaleSchema(req[p].wellFormed, req[p].body)
           /\ req[p].body.allePercentage + req[p].body.aliPercentage # Hundred)
          => resp[p].status = 400 /\ ~loc[p].wrote

C16_Witness ==
    \E p \in Procs :
        /\ Done(p, "POST /api/sales")
        /\ insertSaleSchema(req[p].wellFormed, req[p].body)
        /\ req[p].body.allePercentage + req[p].body.aliPercentage # Hundred
        /\ resp[p].status = 400
        /\ Len(sales) > 0

\* C17: a step in which the currentValue of a stored investment becomes
\* smaller is the value-update step of a sale request for that investment.
C17_ValueFallsOnlyBySale ==
    [][\A i \in 1..Len(investments) : \A j \in 1..Len(investments') :
         (/\ investments'[j].id = investments[i].id
          /\ parseFloat(investments'[j].currentValue)
               < parseFloat(investments[i].currentValue))
         => \E p \in Procs :
              /\ Steps(p, "POST /api/sales: created", "POST /api/sales: updated")
              /\ req[p].body.investmentId = investments[i].id]_vars

\* C18: every stored investment has currentValue >= 0 and initialValue >= 0.
C18_ValuesNotNegative ==
    \A i \in 1..Len(investments) :
        /\ parseFloat(investments[i].currentValue) >= 0
        /\ parseFloat(investments[i].initialValue) >= 0

\* C19: the delete step of a delete request removes the investment the
\* handler read, and nothing else; the transaction step appends one Deletion
\* transaction with the name that investment had, amount 0 and as userId the
\* deletedBy supplied, else the investment's createdBy; the request is then
\* answered 200 with the id absent; and no step of the request changes or
\* removes a transaction or a sale that exists.
Supplied(x) == ~Falsy(x)

C19_DeleteRemovesAndLogs ==
    [][\A p \in Procs :
         /\ Steps(p, "DELETE /api/investments/:id: found",
                     "DELETE /api/investments/:id: deleted")
            => /\ Stored(investments, loc[p].investment)
               /\ loc[p].investment.id = req[p].id
               /\ getInvestment(investments', req[p].id) = Undefined
               /\ \A i \in 1..Len(getAllInvestments(investments')) :
                     getAllInvestments(investments')[i].id # req[p].id
               /\ investments' = MapDelete(investments, req[p].id)
         /\ Steps(p, "DELETE /api/investments/:id: deleted",
                     "DELETE /api/investments/:id: respond")
            => /\ Len(transactions') = Len(transactions) + 1
               /\ LET t == transactions'[Len(transactions')]
                  IN  /\ t.action = "Eliminazione"
                      /\ t.investmentId = req[p].id
                      /\ t.investmentName = loc[p].investment.name
                      /\ parseFloat(t.amount) = 0
                      /\ t.userId = IF Supplied(req[p].deletedBy)
                                    THEN req[p].deletedBy
                                    ELSE loc[p].investment.createdBy
         /\ Steps(p, "DELETE /api/investments/:id: respond", "done")
            => /\ resp'[p].status = 200
               /\ ~MapHas(investments, req[p].id)
               /\ Len(loc[p].txs) = 1
         /\ (pc'[p] # pc[p] /\ req'[p].kind = "DELETE /api/investments/:id")
            => /\ \A i \in 1..Len(transactions) : transactions'[i] = transactions[i]
               /\ sales' = sales]_vars

C19_Witness ==
    \E p \in Procs :
        /\ Done(p, "DELETE /api/investments/:id")
        /\ resp[p].status = 200
        /\ req[p].deletedBy = "ali"
        /\ loc[p].txs[1].investmentName = "Renamed"
        /\ loc[p].txs[1].userId = "ali"
        /\ \E i \in 1..Len(transactions) :
              /\ transactions[i].action = "Acquisto"
              /\ transactions[i].investmentId = req[p].id
        /\ \E i \in 1..Len(sales) : sales[i].investmentId = req[p].id

\* C20: the updateInvestment step of an update request sets, on the stored
\* investment with the id, exactly the fields of the partial, and leaves its
\* other fields, its id, its place and every other investment unchanged; for
\* an id that is not stored it changes nothing and the request is answered
\* 404 with nothing written.
C20_UpdateMergesPartial ==
    [][\A p \in Procs :
         /\ Steps(p, "idle", "PUT /api/investments/:id: updated")
            => IF MapHas(investments, req'[p].id)
               THEN /\ Len(investments') = Len(investments)
                    /\ \A i \in 1..Len(investments) :
                          IF investments[i].id = req'[p].id
                          THEN /\ DOMAIN investments'[i] = DOMAIN investments[i]
                               /\ investments'[i].id = investments[i].id
                               /\ \A f \in DOMAIN investments[i] :
                                     investments'[i][f] =
                                       IF f \in DOMAIN req'[p].body
                                       THEN req'[p].body[f]
                                       ELSE investments[i][f]
                               /\ loc'[p].updated = investments'[i]
                          ELSE investments'[i] = investments[i]
               ELSE /\ investments' = investments
                    /\ loc'[p].updated = Undefined
         /\ (/\ pc[p] = "PUT /api/investments/:id: updated"
             /\ pc'[p] # pc[p]
             /\ ~MapHas(investments, req[p].id))
            => /\ resp'[p].status = 404
               /\ ~loc'[p].wrote
               /\ UNCHANGED <<investments, transactions, sales>>]_vars

C20_Witness ==
    \E p \in Procs :
        /\ Done(p, "PUT /api/investments/:id")
        /\ resp[p].status = 200
        /\ req[p].body = [allePercentage |-> Pct(60)]
        /\ MapGet(investments, req[p].id) =
              [MapGet(SeedInvestments(Len(sampleInvestments), FirstInvestmentId),
                      req[p].id) EXCEPT !.allePercentage = Pct(60)]

\* C21: the transaction step of a successful update request appends one Edit
\* transaction whose amount is the currentValue the investment is stored with
\* after the update (the body's when the body has one, the earlier one
\* otherwise), whose investmentName is the stored name after the update, and
\* whose userId is the updatedBy supplied, else the investment's createdBy.
C21_EditTransactionFields ==
    [][\A p \in Procs :
         Steps(p, "PUT /api/investments/:id: updated", "PUT /api/investments/:id: respond")
         => /\ Len(transactions') = Len(transactions) + 1
            /\ LET t == transactions'[Len(transactions')]
                   stored == MapGet(investments, req[p].id)
               IN  /\ t.action = "Modifica"
                   /\ t.investmentId = req[p].id
                   /\ t.amount = stored.currentValue
                   /\ "currentValue" \in DOMAIN req[p].body
                        => t.amount = req[p].body.currentValue
                   /\ t.investmentName = stored.name
                   /\ "name" \in DOMAIN req[p].body
                        => t.investmentName = req[p].body.name
                   /\ t.userId = IF Supplied(req[p].updatedBy)
                                 THEN req[p].updatedBy
                                 ELSE stored.createdBy]_vars

C21_Witness ==
    \E p \in Procs :
        /\ Done(p, "PUT /api/investments/:id")
        /\ resp[p].status = 200
        /\ req[p].updatedBy = "ali"
        /\ loc[p].txs[1].userId = "ali"
        /\ loc[p].txs[1].amount = MapGet(investments, req[p].id).currentValue

SeedInvestment(id) == MapGet(SeedInvestments(Len(sampleInvestments), FirstInvestmentId), id)

C23_TwoSalesBothSubtracted ==
    \A p, q \in Procs :
        (/\ p # q
         /\ events = 2
         /\ Done(p, "POST /api/sales") /\ resp[p].status = 201
         /\ Done(q, "POST /api/sales") /\ resp[q].status = 201
         /\ req[p].body.investmentId = req[q].body.investmentId)
        => LET id == req[p].body.investmentId
           IN  /\ MapHas(investments, id)
               /\ parseFloat(MapGet(investments, id).currentValue)
                    = parseFloat(SeedInvestment(id).currentValue)
                        - (req[p].body.saleAmount.v + req[q].body.saleAmount.v)

\* C24: a create-investment or create-sale request with a percentage that is
\* not a whole number is answered 400, and every stored percentage, of an
\* investment or of a sale, is a whole number between 0 and 100.
Whole(p) == p % PctScale = 0

C24_WholePercentagesOnly ==
    /\ \A p \in Procs :
          (/\ pc[p] = "done"
           /\ req[p].kind \in {"POST /api/investments", "POST /api/sales"}
           /\ ~(Whole(req[p].body.allePercentage) /\ Whole(req[p].body.aliPercentage)))
          => resp[p].status = 400
    /\ \A i \in 1..Len(investments) :
          /\ Whole(investments[i].allePercentage) /\ Whole(investments[i].aliPercentage)
          /\ PercentageInRange(investments[i].allePercentage)
          /\ PercentageInRange(investments[i].aliPercentage)
    /\ \A i \in 1..Len(sales) :
          /\ Whole(sales[i].allePercentage) /\ Whole(sales[i].aliPercentage)
          /\ PercentageInRange(sales[i].allePercentage)
          /\ PercentageInRange(sales[i].aliPercentage)

\* C25: a step of a writing request that writes an investment or a sale is
\* taken only when the request's body is valid, its percentages sum to 100
\* where the route checks them and the investment it addresses is stored; the
\* step that writes the request's transaction comes after that write, writes
\* nothing else and is the only one; and the success response is sent by a
\* later step that writes nothing.
ChecksPassed(r, invs) ==
    CASE r.kind = "POST /api/investments" ->
           /\ insertInvestmentSchema(r.wellFormed, r.body)
           /\ r.body.allePercentage + r.body.aliPercentage = Hundred
      [] r.kind = "PUT /api/investments/:id" ->
           /\ insertInvestmentSchemaPartial(r.wellFormed, r.body)
           /\ MapHas(invs, r.id)
      [] r.kind = "DELETE /api/investments/:id" -> MapHas(invs, r.id)
      [] r.kind = "POST /api/sales" ->
           /\ insertSaleSchema(r.wellFormed, r.body)
           /\ r.body.allePercentage + r.body.aliPercentage = Hundred
           /\ MapHas(invs, r.body.investmentId)
      [] OTHER -> FALSE

\* the investment or sale write of the request is in the repository
EntityWritten(p) ==
    CASE req[p].kind = "POST /api/investments" ->
           loc[p].investment # Undefined /\ Stored(investments, loc[p].investment)
      [] req[p].kind = "PUT /api/investments/:id" ->
           loc[p].updated # Undefined /\ Stored(investments, loc[p].updated)
      [] req[p].kind = "DELETE /api/investments/:id" ->
           loc[p].deleted /\ ~MapHas(investments, req[p].id)
      [] req[p].kind = "POST /api/sales" ->
           /\ loc[p].sale # Undefined /\ Stored(sales, loc[p].sale)
           /\ MapGet(investments, req[p].body.investmentId).currentValue
                = newCurrentValue(loc[p].investment, req[p].body)
      [] OTHER -> FALSE

C25_ValidatePersistLogRespond ==
    [][\A p \in Procs :
         pc'[p] # pc[p]
         => /\ (investments' # investments \/ sales' # sales)
               => /\ ChecksPassed(req'[p], investments)
                  /\ transactions' = transactions
                  /\ loc[p].txs = <<>>
                  /\ pc'[p] # "done"
            /\ transactions' # transactions
               => /\ EntityWritten(p)
                  /\ loc[p].txs = <<>>
                  /\ Len(transactions') = Len(transactions) + 1
                  /\ investments' = investments /\ sales' = sales
                  /\ pc'[p] # "done"
            /\ (pc'[p] = "done" /\ req[p].kind \in WriteKinds /\ resp'[p].status \in {200, 201})
               => /\ Len(loc[p].txs) = 1
                  /\ Stored(transactions, loc[p].txs[1])
                  /\ UNCHANGED <<investments, transactions, sales>>]_vars

C25_Witness ==
    \E p \in Procs :
        /\ Done(p, "POST /api/sales")
        /\ resp[p].status = 201
        /\ Stored(sales, loc[p].sale)
        /\ Len(loc[p].txs) = 1

\* C26: no step adds, removes or changes a user: in every state the user
\* collection is the one bootstrap created, alle (admin, with the password)
\* and ali (viewer, without one), in that order.
BootstrapUsers ==
    << [id |-> 1, username |-> "alle", role |-> "admin", password |-> "admin123"],
       [id |-> 2, username |-> "ali", role |-> "viewer", password |-> "<null>"] >>

C26_UsersImmutable == [][users = BootstrapUsers /\ users' = users]_vars

C26_Witness ==
    /\ users = BootstrapUsers
    /\ session = "viewer"
    /\ Len(sales) > 0
    /\ \E p \in Procs : Done(p, "GET /api/users") /\ resp[p].body.list = users

\* C27: the log holds at most one Deletion transaction for an investment id,
\* also when the handlers of two delete requests for it interleave; a delete
\* request whose deleteInvestment call found the record already gone appends
\* no transaction and is answered 500.
Deletions(id) ==
    {i \in 1..Len(transactions) :
       transactions[i].action = "Eliminazione" /\ transactions[i].investmentId = id}

C27_OneDeletionPerInvestment ==
    /\ \A i \in 1..Len(transactions) : Cardinality(Deletions(transactions[i].investmentId)) <= 1
    /\ \A p \in Procs :
          (Done(p, "DELETE /api/investments/:id")
             /\ loc[p].investment # Undefined /\ ~loc[p].deleted)
          => resp[p].status = 500 /\ loc[p].txs = <<>>

C27_Witness ==
    \E p, q \in Procs :
        /\ p # q
        /\ Done(p, "DELETE /api/investments/:id") /\ resp[p].status = 200
        /\ Done(q, "DELETE /api/investments/:id") /\ resp[q].status = 500
        /\ req[p].id = req[q].id
        /\ loc[q].investment # Undefined
        /\ Cardinality(Deletions(req[p].id)) = 1

\* C28: once the log holds the Deletion transaction of an investment id, no
\* step appends an Edit or Sale transaction or a sale for that id, also when
\* the handler of an update or sale request for it was past its existence
\* check when the delete request ran.
C28_NothingAfterDeletion ==
    [][/\ \A i \in (Len(transactions) + 1)..Len(transactions') :
            transactions'[i].action \in {"Modifica", "Vendita"}
            => Deletions(transactions'[i].investmentId) = {}
       /\ \A i \in (Len(sales) + 1)..Len(sales') :
            Deletions(sales'[i].investmentId) = {}]_vars

\* C29: with requests served one at a time, whenever no request is between
\* two of its steps, every stored investment whose currentValue no update
\* request has set has currentValue plus the saleAmount of every recorded
\* sale for it equal to the currentValue it was created with.
RECURSIVE SoldOf(_, _, _)
SoldOf(ss, id, n) ==
    IF n = 0 THEN 0
    ELSE SoldOf(ss, id, n - 1)
           + (IF ss[n].investmentId = id THEN ss[n].saleAmount.v ELSE 0)

\* an update request writes the number of its body as currentValue, and logs it
ValueEdited(id) ==
    \E i \in 1..Len(transactions) :
        /\ transactions[i].action = "Modifica"
        /\ transactions[i].investmentId = id
        /\ transactions[i].amount.k = "number"

CreatedWith(inv) ==
    IF SeedInvestment(inv.id) # Undefined
    THEN parseFloat(SeedInvestment(inv.id).currentValue)
    ELSE parseFloat(First(InvestmentBodies).currentValue)

C30_SaleNameIsSnapshot ==
    \A p \in Procs :
        (Done(p, "POST /api/sales") /\ resp[p].status = 201)
        => /\ Stored(sales, loc[p].sale)
           /\ loc[p].sale.investmentName = loc[p].investment.name
           /\ loc[p].sale.investmentName = loc[p].txs[1].investmentName
====
